---- MODULE Spec2Model ----
(***************************************************************************)
(* Model of the websockets hub (plugins/websockets/plugin.go) and of the    *)
(* RPC plugin (plugins/rpc/plugin.go).                                     *)
(*                                                                         *)
(* SpecGateway : Plugin.Publish / Plugin.PublishAsync under p.mu           *)
(* SpecHub     : Plugin.Middleware, one handler run per request, and Stop  *)
(* SpecFanout  : Plugin.Serve, one receive loop per broker, the worker     *)
(*               pool and Stop                                             *)
(* SpecRpc     : rpc Plugin.Serve, its accept loop, and Plugin.Stop        *)
(* LiveHub, LiveFanout, LiveRpc : the same with the scheduling of the      *)
(*               program's own steps stated as weak fairness               *)
(*                                                                         *)
(* The executor, the worker pool and the topic store are collaborators     *)
(* whose code is elsewhere; they are modelled from their description.      *)
(***************************************************************************)
EXTENDS Integers, Sequences, FiniteSets, TLC

\* ------------------------------------------------------------------ bounds
\* number of concurrent Publish / PublishAsync invocations
NCalls == 2
\* longest batch ([]*pubsub.Message) handed to the gateway
MaxBatch == 2
\* most topics carried by one message of a batch
MaxTopics == 1
\* number of HTTP requests served by the Middleware handler
NReq == 2
\* number of topic names in use
NTopics == 2
\* number of Stop calls
MaxStops == 2
\* number of workers of the pool
NWorkers == 1
\* capacity of the pool's queue
QueueCap == 1
\* number of messages the brokers' Next hands out
MaxMsgs == 2
\* number of services collected by the rpc plugin (len(s.plugins))
NPlugins == 2
\* number of connections the rpc listener accepts
MaxConns == 2
\* number of calls of the rpc plugin's Stop
MaxRpcStops == 2

\* ------------------------------------------------------------- vocabulary
TopicNames == <<"t1", "t2", "t3", "t4">>

\* p.pubsubs: the broker keys registered through GetPublishers
pubsubs == {"b1", "b2"}

\* broker keys a message may name: the registered ones and one that is not
BrokerKeys == pubsubs \cup {"bx"}

\* pubsub.Message as plugin.go reads it: the Broker key and the Topics slice
\* (the payload is never inspected by the plugin)
Message == [Broker : BrokerKeys,
            Topics : {SubSeq(TopicNames, 1, n) : n \in 0..MaxTopics}]

RECURSIVE SeqsUpTo(_, _)
SeqsUpTo(S, n) ==
  IF n = 0 THEN {<<>>}
  ELSE LET shorter == SeqsUpTo(S, n - 1)
       IN  shorter \cup {Append(s, x) : s \in {t \in shorter : Len(t) = n - 1}, x \in S}

Batches == SeqsUpTo(Message, MaxBatch)

CallIds == 1..NCalls
NoHolder == 0

VARIABLES
  mu,          \* p.mu: the call holding the lock, or NoHolder
  call,        \* per invocation: position in Publish / PublishAsync
  pubLog,      \* every br.Publish invocation, in the order they happened
  log,         \* p.log entries written by the gateway
  crashed,     \* the process died from an unrecovered panic in a goroutine
  errCh,       \* errors received from the channel returned by Serve
  stopped,     \* p.stopped
  poolStopped, \* p.workersPool has been stopped
  req,         \* per HTTP request: position in the Middleware handler
  connections, \* p.connections: the connection IDs stored
  conn,        \* per connection ID: state of its transport
  storage,     \* p.storage: topic -> connection IDs subscribed
  atStop,      \* history: the connection IDs stored when Stop was called
  served,      \* Serve has been called
  brk,         \* per registered broker: its receive loop
  queue,       \* the worker pool's queue
  accepted,    \* every item the queue accepted, in order
  wk,          \* per pool worker: the item being fanned out
  fan,         \* per item taken by a worker: who it was written to
  rsrv,        \* rpc Serve: position, services attached, start-up failure
  listener,    \* rpc s.listener: "nil", "open" or "closed"
  closed,      \* rpc *s.closed
  rpcErrCh,    \* rpc Serve's errCh: the errors buffered in it
  rsent,       \* history: every send on rpc errCh that completed
  racc,        \* rpc accept loop
  rstop        \* rpc Stop: position, number of calls, results

gwVars == <<mu, call, pubLog, log, crashed>>
hubVars == <<stopped, poolStopped, req, connections, conn, storage, atStop>>
fanVars == <<served, brk, queue, accepted, wk, fan>>
rpcVars == <<rsrv, listener, closed, rpcErrCh, rsent, racc, rstop>>
vars == <<mu, call, pubLog, log, crashed, errCh, stopped, poolStopped, req,
          connections, conn, storage, atStop, served, brk, queue, accepted, wk, fan,
          rsrv, listener, closed, rpcErrCh, rsent, racc, rstop>>

IdleCall == [pc |-> "idle", fn |-> "none", msg |-> <<>>, i |-> 0, j |-> 0,
             ret |-> "none", back |-> FALSE]

InitGateway ==
  /\ mu = NoHolder
  /\ call = [c \in CallIds |-> IdleCall]
  /\ pubLog = <<>>
  /\ log = <<>>
  /\ crashed = FALSE

\* ------------------------------------------------------- loop bookkeeping
\* `for i ... { for j < len(msg[i].Topics) ... }`: the first position at or
\* after (i, j) at which the inner body runs; i = Len(msg)+1 when none is left
RECURSIVE NextPos(_, _, _)
NextPos(msg, i, j) ==
  IF i > Len(msg) THEN <<i, 1>>
  ELSE IF j <= Len(msg[i].Topics) THEN <<i, j>>
  ELSE NextPos(msg, i + 1, 1)

AtBody(c) == call[c].pc = "loop" /\ call[c].i <= Len(call[c].msg)
AtEnd(c) == call[c].pc = "loop" /\ call[c].i > Len(call[c].msg)

\* j++ (and i++ past exhausted topic lists)
Advance(c) ==
  LET p == NextPos(call[c].msg, call[c].i, call[c].j + 1)
  IN  call' = [call EXCEPT ![c].i = p[1], ![c].j = p[2]]

\* ------------------------------------------------------------- Publish
\* the caller enters Publish(msg) and is about to take p.mu
PublishCall(c, m) ==
  /\ ~crashed
  /\ call[c].pc = "idle"
  /\ call' = [call EXCEPT ![c] = [IdleCall EXCEPT !.pc = "lock", !.fn = "Publish",
                                                  !.msg = m]]
  /\ UNCHANGED <<mu, pubLog, log, crashed, errCh, hubVars, fanVars, rpcVars>>

MuLockNoWait(c) ==
  /\ ~crashed
  /\ call[c].pc = "lock"
  /\ mu' = c
  /\ LET p == NextPos(call[c].msg, 1, 1)
     IN  call' = [call EXCEPT ![c].pc = "loop", ![c].i = p[1], ![c].j = p[2]]
  /\ UNCHANGED <<pubLog, log, crashed, errCh, hubVars, fanVars, rpcVars>>

\* p.mu.Lock() at the head of Publish and of the PublishAsync goroutine
MuLock(c) ==
  /\ ~crashed
  /\ call[c].pc = "lock"
  /\ mu = NoHolder
  /\ mu' = c
  /\ LET p == NextPos(call[c].msg, 1, 1)
     IN  call' = [call EXCEPT ![c].pc = "loop", ![c].i = p[1], ![c].j = p[2]]
  /\ UNCHANGED <<pubLog, log, crashed, errCh, hubVars, fanVars, rpcVars>>

PublishBrokerSwallow(c) ==
  /\ ~crashed
  /\ call[c].fn = "Publish"
  /\ AtBody(c)
  /\ call[c].msg[call[c].i].Broker \in pubsubs
  /\ \E err \in BOOLEAN :
       /\ pubLog' = Append(pubLog, [call |-> c, i |-> call[c].i,
                                    to |-> call[c].msg[call[c].i].Broker, err |-> err])
       /\ Advance(c)
       /\ UNCHANGED mu
  /\ UNCHANGED <<log, crashed, errCh, hubVars, fanVars, rpcVars>>

\* Publish, inner body, key found: br.Publish(msg), which is handed the whole
\* batch msg (not msg[i]); an error returns at once (the deferred Unlock
\* runs), otherwise the loop goes on
PublishBroker(c) ==
  /\ ~crashed
  /\ call[c].fn = "Publish"
  /\ AtBody(c)
  /\ call[c].msg[call[c].i].Broker \in pubsubs
  /\ \E err \in BOOLEAN :
       /\ pubLog' = Append(pubLog, [call |-> c, i |-> call[c].i,
                                    to |-> call[c].msg[call[c].i].Broker, err |-> err])
       /\ IF err
          THEN /\ call' = [call EXCEPT ![c].pc = "done", ![c].ret = "err",
                                       ![c].back = TRUE]
               /\ mu' = NoHolder
          ELSE /\ Advance(c)
               /\ UNCHANGED mu
  /\ UNCHANGED <<log, crashed, errCh, hubVars, fanVars, rpcVars>>

PublishNoBrokerAbort(c) ==
  /\ ~crashed
  /\ call[c].fn = "Publish"
  /\ AtBody(c)
  /\ call[c].msg[call[c].i].Broker \notin pubsubs
  /\ call' = [call EXCEPT ![c].pc = "done", ![c].ret = "err", ![c].back = TRUE]
  /\ mu' = NoHolder
  /\ UNCHANGED <<pubLog, log, crashed, errCh, hubVars, fanVars, rpcVars>>

\* Publish, inner body, key not found: p.log.Warn("no such broker", ...) and
\* the loop goes on
PublishNoBroker(c) ==
  /\ ~crashed
  /\ call[c].fn = "Publish"
  /\ AtBody(c)
  /\ call[c].msg[call[c].i].Broker \notin pubsubs
  /\ log' = Append(log, [call |-> c, i |-> call[c].i, level |-> "warn",
                         text |-> "no such broker"])
  /\ Advance(c)
  /\ UNCHANGED <<mu, pubLog, crashed, errCh, hubVars, fanVars, rpcVars>>

\* Publish, both loops exhausted: return nil (the deferred Unlock runs)
PublishEnd(c) ==
  /\ ~crashed
  /\ call[c].fn = "Publish"
  /\ AtEnd(c)
  /\ call' = [call EXCEPT ![c].pc = "done", ![c].ret = "nil", ![c].back = TRUE]
  /\ mu' = NoHolder
  /\ UNCHANGED <<pubLog, log, crashed, errCh, hubVars, fanVars, rpcVars>>

\* --------------------------------------------------------- PublishAsync
PublishAsyncCallBlocking(c, m) ==
  /\ ~crashed
  /\ call[c].pc = "idle"
  /\ call' = [call EXCEPT ![c] = [IdleCall EXCEPT !.pc = "lock", !.fn = "PublishAsync",
                                                  !.msg = m]]
  /\ UNCHANGED <<mu, pubLog, log, crashed, errCh, hubVars, fanVars, rpcVars>>

\* PublishAsync(msg): `go func() {...}()` is started and the caller has its
\* control back at once; the goroutine is about to take p.mu
PublishAsyncCall(c, m) ==
  /\ ~crashed
  /\ call[c].pc = "idle"
  /\ call' = [call EXCEPT ![c] = [IdleCall EXCEPT !.pc = "lock", !.fn = "PublishAsync",
                                                  !.msg = m, !.back = TRUE]]
  /\ UNCHANGED <<mu, pubLog, log, crashed, errCh, hubVars, fanVars, rpcVars>>

\* goroutine, inner body, key found: Publish; an error is logged and the
\* goroutine returns (the deferred Unlock runs)
AsyncBroker(c) ==
  /\ ~crashed
  /\ call[c].fn = "PublishAsync"
  /\ AtBody(c)
  /\ call[c].msg[call[c].i].Broker \in pubsubs
  /\ \E err \in BOOLEAN :
       /\ pubLog' = Append(pubLog, [call |-> c, i |-> call[c].i,
                                    to |-> call[c].msg[call[c].i].Broker, err |-> err])
       /\ IF err
          THEN /\ log' = Append(log, [call |-> c, i |-> call[c].i, level |-> "error",
                                      text |-> "publish async error"])
               /\ call' = [call EXCEPT ![c].pc = "done"]
               /\ mu' = NoHolder
          ELSE /\ Advance(c)
               /\ UNCHANGED <<mu, log>>
  /\ UNCHANGED <<crashed, errCh, hubVars, fanVars, rpcVars>>

\* goroutine, inner body, key not found: p.pubsubs[key] is the nil interface
\* and .Publish on it panics; the deferred Unlock runs while the goroutine
\* unwinds and the unrecovered panic then ends the process
AsyncNilBroker(c) ==
  /\ ~crashed
  /\ call[c].fn = "PublishAsync"
  /\ AtBody(c)
  /\ call[c].msg[call[c].i].Broker \notin pubsubs
  /\ call' = [call EXCEPT ![c].pc = "panic"]
  /\ mu' = NoHolder
  /\ crashed' = TRUE
  /\ UNCHANGED <<pubLog, log, errCh, hubVars, fanVars, rpcVars>>

\* goroutine, both loops exhausted: the deferred Unlock runs
AsyncEnd(c) ==
  /\ ~crashed
  /\ call[c].fn = "PublishAsync"
  /\ AtEnd(c)
  /\ call' = [call EXCEPT ![c].pc = "done"]
  /\ mu' = NoHolder
  /\ UNCHANGED <<pubLog, log, crashed, errCh, hubVars, fanVars, rpcVars>>

NextGateway ==
  \/ \E c \in CallIds, m \in Batches : PublishCall(c, m)
  \/ \E c \in CallIds, m \in Batches : PublishAsyncCall(c, m)
  \/ \E c \in CallIds : MuLock(c)
  \/ \E c \in CallIds : PublishBroker(c)
  \/ \E c \in CallIds : PublishNoBroker(c)
  \/ \E c \in CallIds : PublishEnd(c)
  \/ \E c \in CallIds : AsyncBroker(c)
  \/ \E c \in CallIds : AsyncNilBroker(c)
  \/ \E c \in CallIds : AsyncEnd(c)

\* ======================================================== the hub proper
\* SpecHub : Plugin.Middleware (one handler run per request), Plugin.Stop and
\*           the join / leave commands of the per-connection executor

Requests == 1..NReq
Topics == {TopicNames[k] : k \in 1..NTopics}

\* p.Config.Path and some other path
ConfigPath == "/ws"
Paths == {ConfigPath, "/other"}

\* at: the value of p.stopped when the request reached the handler;
\* attrs: attributes.Init(r) has been applied to the request
IdleReq == [pc |-> "idle", path |-> "", at |-> 0, attrs |-> FALSE,
            access |-> "none", checks |-> 0,
            forwarded |-> 0, resp |-> "none", upgraded |-> FALSE,
            stored |-> FALSE, defers |-> <<>>, ran |-> <<>>, loop |-> "none"]

InitHub ==
  /\ stopped = 0
  /\ poolStopped = FALSE
  /\ req = [r \in Requests |-> IdleReq]
  /\ connections = {}
  /\ conn = [r \in Requests |-> "none"]
  /\ storage = [t \in Topics |-> {}]
  /\ atStop = {}

\* Stop: atomic.AddUint64(&p.stopped, 1), then p.workersPool.Stop()
Stop ==
  /\ ~crashed
  /\ stopped < MaxStops
  /\ stopped' = stopped + 1
  /\ poolStopped' = TRUE
  /\ atStop' = atStop \cup connections
  /\ UNCHANGED <<gwVars, errCh, fanVars, rpcVars, req, connections, conn, storage>>

\* atomic.CompareAndSwapUint64(&p.stopped, 1, 1): true exactly when the
\* counter holds 1 (and then it is left at 1)
IsStopped == stopped = 1

MwPassThroughStopFirst(r, path) ==
  /\ ~crashed
  /\ req[r].pc = "idle"
  /\ path # ConfigPath
  /\ req' = [req EXCEPT ![r].pc = "done", ![r].path = path,
                        ![r].at = stopped,
                        ![r].forwarded = IF IsStopped THEN req[r].forwarded
                                         ELSE req[r].forwarded + 1]
  /\ UNCHANGED <<gwVars, errCh, fanVars, rpcVars, atStop, stopped, poolStopped, connections, conn, storage>>

\* r.URL.Path != p.Config.Path: next.ServeHTTP(w, r) and return
MwPassThrough(r, path) ==
  /\ ~crashed
  /\ req[r].pc = "idle"
  /\ path # ConfigPath
  /\ req' = [req EXCEPT ![r].pc = "done", ![r].path = path,
                        ![r].at = stopped,
                        ![r].forwarded = req[r].forwarded + 1]
  /\ UNCHANGED <<gwVars, errCh, fanVars, rpcVars, atStop, stopped, poolStopped, connections, conn, storage>>

\* websocket path while the plugin counts as stopped: plain return
MwRefuse(r, path) ==
  /\ ~crashed
  /\ req[r].pc = "idle"
  /\ path = ConfigPath
  /\ IsStopped
  /\ req' = [req EXCEPT ![r].pc = "done", ![r].path = path,
                        ![r].at = stopped]
  /\ UNCHANGED <<gwVars, errCh, fanVars, rpcVars, atStop, stopped, poolStopped, connections, conn, storage>>

\* websocket path, not stopped: attributes.Init(r) and on to the access check
MwAdmit(r, path) ==
  /\ ~crashed
  /\ req[r].pc = "idle"
  /\ path = ConfigPath
  /\ ~IsStopped
  /\ req' = [req EXCEPT ![r].pc = "access", ![r].path = path,
                        ![r].at = stopped, ![r].attrs = TRUE]
  /\ UNCHANGED <<gwVars, errCh, fanVars, rpcVars, atStop, stopped, poolStopped, connections, conn, storage>>

\* what AssertServerAccess may return: nil, the *AccessValidator itself (a
\* structured denial) or any other error
AccessResults == {"nil", "denied", "other"}

\* AssertServerAccess(p.hub, r) and the `if err != nil` block behind it:
\* a structured denial is copied to the response (and the handler goes on),
\* any other error answers 400 and returns
MwAccess(r, res) ==
  /\ ~crashed
  /\ req[r].pc = "access"
  /\ req' = [req EXCEPT
       ![r].access = res,
       ![r].checks = req[r].checks + 1,
       ![r].resp = CASE res = "denied" -> "denial"
                     [] res = "other" -> "400"
                     [] OTHER -> req[r].resp,
       ![r].pc = IF res = "other" THEN "done" ELSE "upgrade"]
  /\ UNCHANGED <<gwVars, errCh, fanVars, rpcVars, atStop, stopped, poolStopped, connections, conn, storage>>

\* upgraded.Upgrade(w, r, nil) fails: http.Error(..., 500) and return
MwUpgradeFail(r) ==
  /\ ~crashed
  /\ req[r].pc = "upgrade"
  /\ req' = [req EXCEPT ![r].pc = "done", ![r].resp = "500"]
  /\ UNCHANGED <<gwVars, errCh, fanVars, rpcVars, atStop, stopped, poolStopped, connections, conn, storage>>

MwUpgradeDeferDeleteFirst(r) ==
  /\ ~crashed
  /\ req[r].pc = "upgrade"
  /\ req' = [req EXCEPT ![r].pc = "executor", ![r].upgraded = TRUE,
                        ![r].stored = TRUE,
                        ![r].defers = <<"Delete", "Close">>]
  /\ conn' = [conn EXCEPT ![r] = "open"]
  /\ connections' = connections \cup {r}
  /\ UNCHANGED <<gwVars, errCh, fanVars, rpcVars, atStop, stopped, poolStopped, storage>>

\* Upgrade succeeds: NewConnection, defer Close, uuid.NewString(),
\* p.connections.Store, defer Delete (the request number stands for the UUID)
MwUpgrade(r) ==
  /\ ~crashed
  /\ req[r].pc = "upgrade"
  /\ req' = [req EXCEPT ![r].pc = "executor", ![r].upgraded = TRUE,
                        ![r].stored = TRUE,
                        ![r].defers = <<"Close", "Delete">>]
  /\ conn' = [conn EXCEPT ![r] = "open"]
  /\ connections' = connections \cup {r}
  /\ UNCHANGED <<gwVars, errCh, fanVars, rpcVars, atStop, stopped, poolStopped, storage>>

MwExecutorCleanUpLast(r) ==
  /\ ~crashed
  /\ req[r].pc = "executor"
  /\ mu = NoHolder
  /\ req' = [req EXCEPT ![r].pc = "serving",
                        ![r].defers = <<"CleanUp">> \o req[r].defers]
  /\ UNCHANGED <<gwVars, errCh, fanVars, rpcVars, atStop, stopped, poolStopped, connections, conn, storage>>

\* p.mu.Lock(); executor.NewExecutor(...); p.mu.Unlock(); log; defer e.CleanUp()
\* and StartCommandLoop is entered
MwExecutor(r) ==
  /\ ~crashed
  /\ req[r].pc = "executor"
  /\ mu = NoHolder
  /\ req' = [req EXCEPT ![r].pc = "serving",
                        ![r].defers = Append(req[r].defers, "CleanUp")]
  /\ UNCHANGED <<gwVars, errCh, fanVars, rpcVars, atStop, stopped, poolStopped, connections, conn, storage>>

\* command loop, `join`: the topics the validator grants are subscribed
CmdJoin(r, granted) ==
  /\ ~crashed
  /\ req[r].pc = "serving"
  /\ storage' = [t \in Topics |-> IF t \in granted THEN storage[t] \cup {r}
                                  ELSE storage[t]]
  /\ UNCHANGED <<gwVars, errCh, fanVars, rpcVars, atStop, stopped, poolStopped, req, connections, conn>>

\* command loop, `leave`
CmdLeave(r, left) ==
  /\ ~crashed
  /\ req[r].pc = "serving"
  /\ storage' = [t \in Topics |-> IF t \in left THEN storage[t] \ {r}
                                  ELSE storage[t]]
  /\ UNCHANGED <<gwVars, errCh, fanVars, rpcVars, atStop, stopped, poolStopped, req, connections, conn>>

\* StartCommandLoop returns (the client closed, or a read failed): with an
\* error the handler logs it and returns, without one it falls off its end
MwLoopExit(r, res) ==
  /\ ~crashed
  /\ req[r].pc = "serving"
  /\ req' = [req EXCEPT ![r].pc = "exit", ![r].loop = res]
  /\ UNCHANGED <<gwVars, errCh, fanVars, rpcVars, atStop, stopped, poolStopped, connections, conn, storage>>

DeferFirstRegistered(d) == 1

\* which deferred call runs next when the handler returns: the one that was
\* registered last
DeferNext(d) == Len(d)

Without(d, k) == SubSeq(d, 1, k - 1) \o SubSeq(d, k + 1, Len(d))

\* the handler returns: one deferred call runs
\*   CleanUp (l.189)  e.CleanUp(): the connection leaves every topic
\*   Delete  (l.178)  p.connections.Delete(connectionID)
\*   Close   (l.165)  safeConn.Close()
MwDeferred(r) ==
  /\ ~crashed
  /\ req[r].pc = "exit"
  /\ req[r].defers # <<>>
  /\ LET k == DeferNext(req[r].defers)
         f == req[r].defers[k]
         rest == Without(req[r].defers, k)
     IN  /\ req' = [req EXCEPT ![r].defers = rest,
                               ![r].ran = Append(req[r].ran, f),
                               ![r].pc = IF rest = <<>> THEN "done" ELSE "exit"]
         /\ storage' = IF f = "CleanUp" THEN [t \in Topics |-> storage[t] \ {r}]
                       ELSE storage
         /\ connections' = IF f = "Delete" THEN connections \ {r} ELSE connections
         /\ conn' = IF f = "Close" THEN [conn EXCEPT ![r] = "closed"] ELSE conn
  /\ UNCHANGED <<gwVars, errCh, fanVars, rpcVars, atStop, stopped, poolStopped>>

NextHub ==
  \/ Stop
  \/ \E r \in Requests, p \in Paths : MwPassThrough(r, p)
  \/ \E r \in Requests, p \in Paths : MwRefuse(r, p)
  \/ \E r \in Requests, p \in Paths : MwAdmit(r, p)
  \/ \E r \in Requests, res \in AccessResults : MwAccess(r, res)
  \/ \E r \in Requests : MwUpgradeFail(r)
  \/ \E r \in Requests : MwUpgrade(r)
  \/ \E r \in Requests : MwExecutor(r)
  \/ \E r \in Requests, g \in SUBSET Topics : CmdJoin(r, g)
  \/ \E r \in Requests, l \in SUBSET Topics : CmdLeave(r, l)
  \/ \E r \in Requests, res \in {"nil", "err"} : MwLoopExit(r, res)
  \/ \E r \in Requests : MwDeferred(r)

\* ===================================================== broker fan-out
\* SpecFanout : Plugin.Serve (one receive loop per broker), the worker pool
\*              built in Plugin.Init and Plugin.Stop, with every connection
\*              already inside its command loop

Workers == 1..NWorkers

\* the Topics slices of the messages a broker's Next may return
FanTopics == {SubSeq(TopicNames, 1, n) : n \in 1..NTopics}

IdleWorker == [pc |-> "idle", id |-> <<>>, targets |-> <<>>]

InitFanout ==
  /\ served = FALSE
  /\ brk = [b \in pubsubs |-> [pc |-> "off", data |-> <<>>, calls |-> 0,
                               failed |-> FALSE, got |-> <<>>]]
  /\ queue = <<>>
  /\ accepted = <<>>
  /\ wk = [w \in Workers |-> IdleWorker]
  /\ fan = <<>>

\* Serve: errCh is made, one goroutine per entry of p.pubsubs is started
Serve ==
  /\ ~crashed
  /\ ~served
  /\ served' = TRUE
  /\ brk' = [b \in pubsubs |-> [brk[b] EXCEPT !.pc = "next"]]
  /\ UNCHANGED <<gwVars, errCh, hubVars, rpcVars, queue, accepted, wk, fan>>

Received == Len(brk["b1"].got) + Len(brk["b2"].got)

\* receive loop: ps.Next() returns a message
ServeNext(b, topics) ==
  /\ ~crashed
  /\ brk[b].pc = "next"
  /\ Received < MaxMsgs
  /\ brk' = [brk EXCEPT ![b].pc = "queue",
                        ![b].calls = brk[b].calls + 1,
                        ![b].data = [Broker |-> b, Topics |-> topics],
                        ![b].got = Append(brk[b].got, [Broker |-> b, Topics |-> topics])]
  /\ UNCHANGED <<gwVars, errCh, hubVars, rpcVars, served, queue, accepted, wk, fan>>

ServeNextErrRetry(b) ==
  /\ ~crashed
  /\ brk[b].pc = "next"
  /\ ~brk[b].failed
  /\ brk' = [brk EXCEPT ![b].failed = TRUE, ![b].calls = brk[b].calls + 1]
  /\ UNCHANGED <<gwVars, errCh, hubVars, rpcVars, served, queue, accepted, wk, fan>>

\* receive loop: ps.Next() returns an error, which is about to be sent
ServeNextErr(b) ==
  /\ ~crashed
  /\ brk[b].pc = "next"
  /\ brk' = [brk EXCEPT ![b].pc = "errsend", ![b].failed = TRUE,
                        ![b].calls = brk[b].calls + 1]
  /\ UNCHANGED <<gwVars, errCh, hubVars, rpcVars, served, queue, accepted, wk, fan>>

\* receive loop: `errCh <- err` meets a receive of the owner (the channel is
\* unbuffered), and the goroutine returns
ServeErrSend(b) ==
  /\ ~crashed
  /\ brk[b].pc = "errsend"
  /\ errCh' = Append(errCh, [from |-> b])
  /\ brk' = [brk EXCEPT ![b].pc = "done"]
  /\ UNCHANGED <<gwVars, hubVars, rpcVars, served, queue, accepted, wk, fan>>

\* WorkersPool.Queue takes an item while the pool runs and has room
QueueAccepts == ~poolStopped /\ Len(queue) < QueueCap

ServeQueueDrop(b) ==
  /\ ~crashed
  /\ brk[b].pc = "queue"
  /\ IF QueueAccepts
     THEN /\ queue' = Append(queue, [id |-> <<b, Len(brk[b].got)>>, msg |-> brk[b].data])
          /\ accepted' = Append(accepted, [id |-> <<b, Len(brk[b].got)>>, msg |-> brk[b].data])
     ELSE UNCHANGED <<queue, accepted>>
  /\ brk' = [brk EXCEPT ![b].pc = "next", ![b].data = <<>>]
  /\ UNCHANGED <<gwVars, errCh, hubVars, rpcVars, served, wk, fan>>

\* receive loop: p.workersPool.Queue(data) returns once the queue has taken
\* the message; the loop then calls Next again
ServeQueue(b) ==
  /\ ~crashed
  /\ brk[b].pc = "queue"
  /\ QueueAccepts
  /\ queue' = Append(queue, [id |-> <<b, Len(brk[b].got)>>, msg |-> brk[b].data])
  /\ accepted' = Append(accepted, [id |-> <<b, Len(brk[b].got)>>, msg |-> brk[b].data])
  /\ brk' = [brk EXCEPT ![b].pc = "next", ![b].data = <<>>]
  /\ UNCHANGED <<gwVars, errCh, hubVars, rpcVars, served, wk, fan>>

\* connection IDs of a set, in a fixed order
RECURSIVE Ordered(_)
Ordered(S) ==
  IF S = {} THEN <<>>
  ELSE LET m == CHOOSE x \in S : \A y \in S : x <= y
       IN  <<m>> \o Ordered(S \ {m})

InSeq(x, q) == \E k \in DOMAIN q : q[k] = x

\* the subscribers topic by topic, a connection listed once per topic joined
RECURSIVE ResolveAll(_)
ResolveAll(topics) ==
  IF topics = <<>> THEN <<>>
  ELSE Ordered(storage[Head(topics)]) \o ResolveAll(Tail(topics))

\* the subscribers of a message: the union over its topics, each connection
\* listed once
RECURSIVE Resolve(_)
Resolve(topics) ==
  IF topics = <<>> THEN <<>>
  ELSE LET first == Ordered(storage[Head(topics)])
       IN  first \o SelectSeq(Resolve(Tail(topics)), LAMBDA c : ~InSeq(c, first))

\* a worker takes the next item off the queue and resolves its subscribers
WorkerTake(w) ==
  /\ ~crashed
  /\ wk[w].pc = "idle"
  /\ ~poolStopped
  /\ queue # <<>>
  /\ LET it == Head(queue)
         targets == Resolve(it.msg.Topics)
     IN  /\ queue' = Tail(queue)
         /\ wk' = [wk EXCEPT ![w] = IF targets = <<>> THEN IdleWorker
                                    ELSE [pc |-> "deliver", id |-> it.id,
                                          targets |-> targets]]
         /\ fan' = Append(fan, [id |-> it.id,
                                subs |-> UNION {storage[it.msg.Topics[k]] :
                                                  k \in DOMAIN it.msg.Topics},
                                writes |-> [c \in Requests |-> 0],
                                failed |-> {},
                                done |-> targets = <<>>])
  /\ UNCHANGED <<gwVars, errCh, hubVars, rpcVars, served, brk, accepted>>

FanIndex(id) == CHOOSE k \in DOMAIN fan : fan[k].id = id

PoolSeesNoConnections == {}

\* NewWorkersPool(p.storage, &p.connections, log): the workers look their
\* targets up in the hub's own connection registry
PoolConnections == connections

\* a worker writes the payload to the next subscriber found in p.connections;
\* a failed write is recorded and the fan-out goes on
WorkerWrite(w, ok) ==
  /\ ~crashed
  /\ wk[w].pc = "deliver"
  /\ LET c == Head(wk[w].targets)
         rest == Tail(wk[w].targets)
         k == FanIndex(wk[w].id)
     IN  /\ fan' = [fan EXCEPT
                 ![k].writes[c] = IF c \in PoolConnections THEN @ + 1 ELSE @,
                 ![k].failed = IF c \in PoolConnections /\ ~ok THEN @ \cup {c} ELSE @,
                 ![k].done = rest = <<>>]
         /\ wk' = [wk EXCEPT ![w] = IF rest = <<>> THEN IdleWorker
                                    ELSE [wk[w] EXCEPT !.targets = rest]]
  /\ UNCHANGED <<gwVars, errCh, hubVars, rpcVars, served, brk, queue, accepted>>

\* a stopped pool's worker exits once it has finished its item
WorkerExit(w) ==
  /\ ~crashed
  /\ wk[w].pc = "idle"
  /\ poolStopped
  /\ wk' = [wk EXCEPT ![w].pc = "exited"]
  /\ UNCHANGED <<gwVars, errCh, hubVars, rpcVars, served, brk, queue, accepted, fan>>

NextFanout ==
  \/ Serve
  \/ Stop
  \/ \E b \in pubsubs, t \in FanTopics : ServeNext(b, t)
  \/ \E b \in pubsubs : ServeNextErr(b)
  \/ \E b \in pubsubs : ServeErrSend(b)
  \/ \E b \in pubsubs : ServeQueue(b)
  \/ \E w \in Workers : WorkerTake(w)
  \/ \E w \in Workers, ok \in BOOLEAN : WorkerWrite(w, ok)
  \/ \E w \in Workers : WorkerExit(w)

\* ======================================================== rpc plugin
\* SpecRpc : rpc Plugin.Serve with the accept loop it starts, and Plugin.Stop

\* errCh := make(chan error, 1)
RpcErrCap == 1

Plugins == 1..NPlugins

InitRpc ==
  /\ rsrv = [pc |-> "off", i |-> 0, attached |-> <<>>, failed |-> "none"]
  /\ listener = "nil"
  /\ closed = 0
  /\ rpcErrCh = <<>>
  /\ rsent = <<>>
  /\ racc = [pc |-> "off", cause |-> "none", stopCalled |-> FALSE,
             conns |-> 0, logs |-> <<>>]
  /\ rstop = [pc |-> "idle", n |-> 0, rets |-> <<>>]

\* a panic in Stop was not recovered: the process is gone
RpcAlive == rstop.pc # "panic"

\* Serve is entered: errCh is made, s.rpc = rpc.NewServer()
RpcServe ==
  /\ RpcAlive
  /\ rsrv.pc = "off"
  /\ rsrv' = [rsrv EXCEPT !.pc = "attach", !.i = 1]
  /\ UNCHANGED <<gwVars, errCh, hubVars, fanVars, listener, closed, rpcErrCh, rsent, racc, rstop>>

\* one turn of the attach loop: s.Register(name, service.RPC()) succeeds and
\* the loop goes on, or fails and Serve goes to send the error
RpcRegister(ok) ==
  /\ RpcAlive
  /\ rsrv.pc = "attach"
  /\ rsrv.i <= NPlugins
  /\ rsrv' = IF ok
             THEN [rsrv EXCEPT !.attached = Append(rsrv.attached, rsrv.i),
                               !.i = rsrv.i + 1]
             ELSE [rsrv EXCEPT !.pc = "send", !.failed = "register"]
  /\ UNCHANGED <<gwVars, errCh, hubVars, fanVars, listener, closed, rpcErrCh, rsent, racc, rstop>>

\* s.listener, err = s.cfg.Listener(): with a listener the accept goroutine is
\* started and Serve returns errCh; without one s.listener is left nil and
\* Serve goes to send the error
RpcListen(ok) ==
  /\ RpcAlive
  /\ rsrv.pc = "attach"
  /\ rsrv.i > NPlugins
  /\ IF ok
     THEN /\ listener' = "open"
          /\ rsrv' = [rsrv EXCEPT !.pc = "returned"]
          /\ racc' = [racc EXCEPT !.pc = "accept"]
     ELSE /\ listener' = "nil"
          /\ rsrv' = [rsrv EXCEPT !.pc = "send", !.failed = "listener"]
          /\ racc' = racc
  /\ UNCHANGED <<gwVars, errCh, hubVars, fanVars, closed, rpcErrCh, rsent, rstop>>

\* errCh <- err; return errCh on a start-up failure: the send completes
\* when the buffer has room
RpcStartSend ==
  /\ RpcAlive
  /\ rsrv.pc = "send"
  /\ Len(rpcErrCh) < RpcErrCap
  /\ rpcErrCh' = Append(rpcErrCh, [from |-> rsrv.failed])
  /\ rsent' = Append(rsent, [from |-> rsrv.failed])
  /\ rsrv' = [rsrv EXCEPT !.pc = "returned"]
  /\ UNCHANGED <<gwVars, errCh, hubVars, fanVars, listener, closed, racc, rstop>>

\* s.listener.Accept() returns a connection: go s.rpc.ServeCodec(...)
RpcAccept ==
  /\ RpcAlive
  /\ racc.pc = "accept"
  /\ listener = "open"
  /\ racc.conns < MaxConns
  /\ racc' = [racc EXCEPT !.conns = racc.conns + 1]
  /\ UNCHANGED <<gwVars, errCh, hubVars, fanVars, rsrv, listener, closed, rpcErrCh, rsent, rstop>>

\* s.listener.Accept() returns an error: because the listener was closed
\* ("stop") or for a reason of its own while the listener is open ("other")
RpcAcceptFail(cause) ==
  /\ RpcAlive
  /\ racc.pc = "accept"
  /\ cause = "stop" => listener = "closed"
  /\ cause = "other" => listener = "open"
  /\ racc' = [racc EXCEPT !.pc = "check", !.cause = cause]
  /\ UNCHANGED <<gwVars, errCh, hubVars, fanVars, rsrv, listener, closed, rpcErrCh, rsent, rstop>>

\* if atomic.LoadUint32(s.closed) == 1 { s.log.Warn(...); return }
\* s.log.Error(...) and on to the send
RpcAcceptCheck ==
  /\ RpcAlive
  /\ racc.pc = "check"
  /\ racc' = [racc EXCEPT
       !.stopCalled = rstop.n > 0,
       !.logs = Append(racc.logs, IF closed = 1 THEN "warn" ELSE "error"),
       !.pc = IF closed = 1 THEN "done" ELSE "send"]
  /\ UNCHANGED <<gwVars, errCh, hubVars, fanVars, rsrv, listener, closed, rpcErrCh, rsent, rstop>>

RpcAcceptSendLoops ==
  /\ RpcAlive
  /\ racc.pc = "send"
  /\ Len(rpcErrCh) < RpcErrCap
  /\ rpcErrCh' = Append(rpcErrCh, [from |-> "accept"])
  /\ rsent' = Append(rsent, [from |-> "accept"])
  /\ racc' = [racc EXCEPT !.pc = IF Len(rsent) < 1 THEN "accept" ELSE "done"]
  /\ UNCHANGED <<gwVars, errCh, hubVars, fanVars, rsrv, listener, closed, rstop>>

\* errCh <- errors.E(...); return: the send completes when the buffer has
\* room, and the goroutine ends
RpcAcceptSend ==
  /\ RpcAlive
  /\ racc.pc = "send"
  /\ Len(rpcErrCh) < RpcErrCap
  /\ rpcErrCh' = Append(rpcErrCh, [from |-> "accept"])
  /\ rsent' = Append(rsent, [from |-> "accept"])
  /\ racc' = [racc EXCEPT !.pc = "done"]
  /\ UNCHANGED <<gwVars, errCh, hubVars, fanVars, rsrv, listener, closed, rstop>>

\* the owner of the plugin receives from the channel Serve returned
RpcRecv ==
  /\ RpcAlive
  /\ rsrv.pc = "returned"
  /\ rpcErrCh # <<>>
  /\ rpcErrCh' = Tail(rpcErrCh)
  /\ UNCHANGED <<gwVars, errCh, hubVars, fanVars, rsrv, listener, closed, rsent, racc, rstop>>

StopOrderCloseFirst == <<"close", "store">>

\* the two statements of Stop in program order:
\* atomic.StoreUint32(s.closed, 1), then s.listener.Close()
StopOrder == <<"store", "close">>

\* statement k of Stop
\*   store: *s.closed becomes 1
\*   close: s.listener.Close(); on a nil s.listener the call panics, on a
\*          listener closed before it returns an error, which Stop returns
StopStep(k) ==
  LET op == StopOrder[k]
      last == k = Len(StopOrder)
      ends(ret) == [rstop EXCEPT !.pc = "idle", !.rets = Append(rstop.rets, ret),
                                 !.n = IF k = 1 THEN rstop.n + 1 ELSE rstop.n]
      goesOn == [rstop EXCEPT !.pc = "second",
                              !.n = IF k = 1 THEN rstop.n + 1 ELSE rstop.n]
  IN  IF op = "store"
      THEN /\ closed' = 1
           /\ listener' = listener
           /\ rstop' = IF last THEN ends("nil") ELSE goesOn
      ELSE /\ closed' = closed
           /\ listener' = IF listener = "open" THEN "closed" ELSE listener
           /\ rstop' = CASE listener = "nil" ->
                              [rstop EXCEPT !.pc = "panic",
                                            !.n = IF k = 1 THEN rstop.n + 1 ELSE rstop.n]
                         [] listener = "closed" -> ends("err")
                         [] OTHER -> IF last THEN ends("nil") ELSE goesOn

\* Stop is called (by the owner, after Serve returned) and runs its first
\* statement
RpcStop ==
  /\ RpcAlive
  /\ rsrv.pc = "returned"
  /\ rstop.pc = "idle"
  /\ rstop.n < MaxRpcStops
  /\ StopStep(1)
  /\ UNCHANGED <<gwVars, errCh, hubVars, fanVars, rsrv, rpcErrCh, rsent, racc>>

\* Stop runs its second statement and returns
RpcStopRest ==
  /\ RpcAlive
  /\ rstop.pc = "second"
  /\ StopStep(2)
  /\ UNCHANGED <<gwVars, errCh, hubVars, fanVars, rsrv, rpcErrCh, rsent, racc>>

NextRpc ==
  \/ RpcServe
  \/ \E ok \in BOOLEAN : RpcRegister(ok)
  \/ \E ok \in BOOLEAN : RpcListen(ok)
  \/ RpcStartSend
  \/ RpcAccept
  \/ \E cause \in {"stop", "other"} : RpcAcceptFail(cause)
  \/ RpcAcceptCheck
  \/ RpcAcceptSend
  \/ RpcRecv
  \/ RpcStop
  \/ RpcStopRest

Init ==
  /\ InitGateway
  /\ InitHub
  /\ InitFanout
  /\ InitRpc
  /\ errCh = <<>>

\* the hub with every request admitted and inside its command loop, after
\* the clients' join commands produced some subscription relation
Serving ==
  /\ InitGateway
  /\ InitFanout
  /\ InitRpc
  /\ errCh = <<>>
  /\ stopped = 0
  /\ poolStopped = FALSE
  /\ req = [r \in Requests |->
              [IdleReq EXCEPT !.pc = "serving", !.path = ConfigPath, !.access = "nil",
                              !.attrs = TRUE,
                              !.checks = 1, !.upgraded = TRUE, !.stored = TRUE,
                              !.defers = <<"Close", "Delete", "CleanUp">>]]
  /\ connections = Requests
  /\ conn = [r \in Requests |-> "open"]
  /\ storage \in [Topics -> SUBSET Requests]
  /\ atStop = {}

SpecGateway == Init /\ [][NextGateway]_vars

SpecHub == Init /\ [][NextHub]_vars

SpecFanout == Serving /\ [][NextFanout]_vars

\* the handler's own steps are scheduled and return; what the client or the
\* owner of the hub does (commands, closing, Stop) is left to them
LiveHub ==
  /\ SpecHub
  /\ \A r \in Requests :
       /\ WF_vars(\E res \in AccessResults : MwAccess(r, res))
       /\ WF_vars(MwUpgrade(r) \/ MwUpgradeFail(r))
       /\ WF_vars(MwExecutor(r))
       /\ WF_vars(MwDeferred(r))

\* the owner keeps receiving from the channel Serve returned
LiveFanout ==
  /\ SpecFanout
  /\ \A b \in pubsubs : WF_vars(ServeErrSend(b))

SpecRpc == Init /\ [][NextRpc]_vars

\* the accept goroutine is scheduled: an Accept on a closed listener returns,
\* and the statements behind a failed Accept are run
LiveRpc ==
  /\ SpecRpc
  /\ WF_vars(RpcAcceptFail("stop"))
  /\ WF_vars(RpcAcceptCheck)
  /\ WF_vars(RpcAcceptSend)

\* ------------------------------------------------- gateway: observations
\* the br.Publish invocations of call c, in order
PubsOf(c) == SelectSeq(pubLog, LAMBDA e : e.call = c)

\* how often call c invoked br.Publish while at batch entry i
PubsAt(c, i) == Len(SelectSeq(pubLog, LAMBDA e : e.call = c /\ e.i = i))

\* how often call c logged "no such broker" while at batch entry i
WarnsAt(c, i) ==
  Len(SelectSeq(log, LAMBDA e : e.call = c /\ e.i = i /\ e.text = "no such broker"))

Unknown(c) == {i \in DOMAIN call[c].msg : call[c].msg[i].Broker \notin pubsubs}
Known(c) == {i \in DOMAIN call[c].msg : call[c].msg[i].Broker \in pubsubs}

\* C1 (as stated): a synchronous Publish whose batch names an unregistered
\* broker key returns an error, and no broker publish is attempted for that
\* batch entry.
C1_UnknownBrokerReturnsError ==
  \A c \in CallIds :
    (call[c].fn = "Publish" /\ call[c].pc = "done" /\ Unknown(c) # {}) =>
      /\ call[c].ret = "err"
      /\ \A i \in Unknown(c) : PubsAt(c, i) = 0

\* C1 (amended): a synchronous Publish never attempts a broker publish for a
\* batch entry naming an unregistered key and never fails because of it: the
\* entry is skipped with one "no such broker" warning per topic, the loop goes
\* on with the rest of the batch, and an error result always stems from a
\* failed publish on a registered broker.
C1_UnknownBrokerSkipped ==
  \A c \in CallIds :
    call[c].fn = "Publish" =>
      /\ \A i \in Unknown(c) : PubsAt(c, i) = 0
      /\ call[c].ret = "err" => \E k \in DOMAIN pubLog : pubLog[k].call = c /\ pubLog[k].err
      /\ call[c].ret = "nil" =>
           /\ \A i \in Unknown(c) : WarnsAt(c, i) = Len(call[c].msg[i].Topics)
           /\ \A i \in Known(c) : PubsAt(c, i) = Len(call[c].msg[i].Topics)

\* C1 witness: a finished Publish that skipped an unregistered entry with a
\* warning, published the registered entry behind it and returned nil
C1_Witness ==
  \E c \in CallIds :
    /\ call[c].fn = "Publish" /\ call[c].pc = "done" /\ call[c].ret = "nil"
    /\ Len(call[c].msg) = 2
    /\ call[c].msg[1].Broker \notin pubsubs /\ WarnsAt(c, 1) = 1
    /\ call[c].msg[2].Broker \in pubsubs /\ PubsAt(c, 2) = 1

\* how many br.Publish invocations a complete run over the batch of c makes
RECURSIVE Expected(_, _)
Expected(msg, known) ==
  IF msg = <<>> THEN 0
  ELSE (IF Head(msg).Broker \in known THEN Len(Head(msg).Topics) ELSE 0)
       + Expected(Tail(msg), known)

\* C2: in a synchronous Publish the first failing broker publish ends the
\* call with that error and nothing more is published for the batch; a nil
\* result means every broker publish of the batch was made and succeeded.
C2_FirstErrorAborts ==
  \A c \in CallIds :
    call[c].fn = "Publish" =>
      LET P == PubsOf(c) IN
      /\ \A k \in DOMAIN P :
           P[k].err => k = Len(P) /\ call[c].pc = "done" /\ call[c].ret = "err"
      /\ call[c].ret = "err" => Len(P) > 0 /\ P[Len(P)].err
      /\ call[c].ret = "nil" =>
           /\ call[c].pc = "done"
           /\ Len(P) = Expected(call[c].msg, {"b1", "b2"})
           /\ \A k \in DOMAIN P : ~P[k].err
      /\ call[c].back => call[c].ret # "none"

\* C2 witness: a Publish that returned the error of its first broker publish
\* and left the rest of the batch unpublished
C2_Witness ==
  \E c \in CallIds :
    /\ call[c].fn = "Publish" /\ call[c].ret = "err"
    /\ Len(PubsOf(c)) = 1
    /\ Expected(call[c].msg, {"b1", "b2"}) = 2

\* C3: at most one Publish / PublishAsync call is inside its broker-publish
\* loop at any time (exactly the holder of p.mu), so the broker publishes of
\* one batch are contiguous with respect to those of any other batch.
C3_BatchesNeverInterleave ==
  /\ Cardinality({c \in CallIds : call[c].pc = "loop"}) <= 1
  /\ \A c \in CallIds : call[c].pc = "loop" <=> mu = c
  /\ \A k, m \in DOMAIN pubLog :
       (k < m /\ pubLog[k].call = pubLog[m].call) =>
         \A l \in k..m : pubLog[l].call = pubLog[k].call

\* C3 witness: two calls, one of each mode, have both published their whole
\* two-entry batch
C3_Witness ==
  \E c, d \in CallIds :
    /\ call[c].fn = "Publish" /\ call[d].fn = "PublishAsync"
    /\ Len(PubsOf(c)) = 2 /\ Len(PubsOf(d)) = 2

\* C4: PublishAsync hands control back to its caller at once, with no result,
\* whatever the state of p.mu; a failing broker publish inside it is logged,
\* ends that batch, and reaches neither the caller nor the serve error channel.
C4_AsyncFireAndForget ==
  /\ \A c \in CallIds :
       call[c].fn = "PublishAsync" =>
         LET P == PubsOf(c) IN
         /\ call[c].back
         /\ call[c].ret = "none"
         /\ \A k \in DOMAIN P :
              P[k].err =>
                /\ k = Len(P)
                /\ call[c].pc = "done"
                /\ \E n \in DOMAIN log :
                     log[n].call = c /\ log[n].text = "publish async error"
  /\ \A n \in DOMAIN errCh : errCh[n].from \in {"b1", "b2"}

\* C4 witness: the caller of PublishAsync has control back while its batch
\* still waits for p.mu, held by a synchronous Publish inside its loop
C4_Witness ==
  \E c, d \in CallIds :
    /\ call[c].fn = "PublishAsync" /\ call[c].pc = "lock" /\ call[c].back
    /\ call[d].fn = "Publish" /\ call[d].pc = "loop" /\ mu = d

\* ----------------------------------------------------- hub: observations
InNoTopic(r) == \A t \in Topics : r \notin storage[t]

\* C5: an upgrade request is access-checked once, before anything else, and
\* when the validator returned any error (a structured denial or another
\* error) the request is never upgraded, never stored in the connection
\* registry and never gets a command loop or a subscription.
C5_DeniedNeverAdmitted ==
  \A r \in Requests :
    /\ req[r].checks <= 1
    /\ req[r].upgraded => req[r].checks = 1
    /\ req[r].access \in {"denied", "other"} =>
         /\ ~req[r].upgraded
         /\ ~req[r].stored
         /\ r \notin connections
         /\ req[r].pc \notin {"executor", "serving", "exit"}
         /\ InNoTopic(r)

TeardownOrder == <<"CleanUp", "Delete", "Close">>

\* C6: for a connection that was stored in the registry, leaving the command
\* loop (with or without an error) runs CleanUp, then the registry delete,
\* then the transport close, each once and in that order, and the handler
\* ends only after all three; a request that stored nothing tears nothing down.
C6_TeardownOnceInOrder ==
  \A r \in Requests :
    /\ Len(req[r].ran) <= 3
    /\ req[r].ran = SubSeq(TeardownOrder, 1, Len(req[r].ran))
    /\ req[r].stored /\ req[r].pc = "done" => req[r].ran = TeardownOrder
    /\ req[r].pc \in {"executor", "serving"} => req[r].ran = <<>>
    /\ ~req[r].stored => req[r].ran = <<>>
    /\ Len(req[r].ran) >= 1 => InNoTopic(r)
    /\ Len(req[r].ran) >= 2 <=> (req[r].stored /\ r \notin connections)
    /\ Len(req[r].ran) = 3 <=> conn[r] = "closed"

\* C6 witness: two connections were torn down completely, one whose command
\* loop ended with an error and one whose loop ended without
C6_Witness ==
  \E r, q \in Requests :
    /\ req[r].pc = "done" /\ req[r].loop = "err" /\ req[r].ran = TeardownOrder
    /\ req[q].pc = "done" /\ req[q].loop = "nil" /\ req[q].ran = TeardownOrder

\* C7: once Stop has been called, every connection that was registered at
\* that moment is eventually closed, out of the connection registry and out
\* of every topic's subscriber set.
C7_StopTearsConnectionsDown ==
  \A r \in Requests :
    (r \in atStop) ~> (r \notin connections /\ InNoTopic(r) /\ conn[r] = "closed")

\* ------------------------------------------------- fan-out: observations
\* the items the queue accepted from broker b, in order
AcceptedFrom(b) == SelectSeq(accepted, LAMBDA it : it.id[1] = b)

\* C8: in each broker's receive loop every message Next returned is handed to
\* the pool's queue once and in the order received, and Next is not called
\* again before the queue has taken the previous message: a loop that is
\* about to call Next has nothing outstanding, a loop inside Queue has
\* exactly its last message outstanding.
C8_ReceiveLoopHandsOverInOrder ==
  \A b \in {"b1", "b2"} :
    LET A == AcceptedFrom(b)
        G == brk[b].got
    IN  /\ Len(A) <= Len(G)
        /\ \A k \in DOMAIN A : A[k].msg = G[k] /\ A[k].id = <<b, k>>
        /\ Len(G) - Len(A) = IF brk[b].pc = "queue" THEN 1 ELSE 0
        /\ brk[b].pc = "queue" => brk[b].data = G[Len(G)]
        /\ brk[b].calls = Len(G) + IF brk[b].failed THEN 1 ELSE 0

\* C8 witness: one broker's loop is held inside Queue by a full queue while
\* the other broker's loop, whose message the queue took, is free to call Next
C8_Witness ==
  \E b, d \in {"b1", "b2"} :
    /\ brk[b].pc = "queue" /\ ~poolStopped /\ Len(queue) = QueueCap
    /\ brk[d].pc = "next" /\ Len(AcceptedFrom(d)) >= 1

ErrorsFrom(b) == Len(SelectSeq(errCh, LAMBDA e : e.from = b))

\* C9: a broker whose Next returned an error has that error pushed to the
\* serve error channel once, its loop ends and never calls Next again, and
\* with an owner that keeps receiving every failed broker's error is
\* delivered.
C9_BrokerFailureReported ==
  /\ [](\A b \in {"b1", "b2"} :
          /\ brk[b].failed => brk[b].pc \in {"errsend", "done"}
          /\ ErrorsFrom(b) = IF brk[b].pc = "done" THEN 1 ELSE 0)
  /\ [][\A b \in {"b1", "b2"} : brk[b].failed => brk'[b].calls = brk[b].calls]_vars
  /\ \A b \in {"b1", "b2"} : brk[b].failed ~> (ErrorsFrom(b) = 1)

\* C9 witness: both brokers have failed; the error of one has been received
\* by the owner while the other's loop is still sending
C9_Witness ==
  \E b, d \in {"b1", "b2"} :
    /\ brk[b].failed /\ brk[b].pc = "done" /\ ErrorsFrom(b) = 1
    /\ brk[d].failed /\ brk[d].pc = "errsend"

\* the message behind a queue item
MsgOf(id) == brk[id[1]].got[id[2]]

\* C10: a message is written to exactly the connections subscribed to any of
\* its topics, once each, however many of its topics a connection joined; a
\* connection subscribed to none of them is written nothing.
C10_FanoutUnionOnce ==
  \A k \in DOMAIN fan :
    LET f == fan[k]
        topics == MsgOf(f.id).Topics
        subscribed == {c \in Requests : \E j \in DOMAIN topics : c \in storage[topics[j]]}
    IN  /\ \A c \in Requests : f.writes[c] <= 1
        /\ \A c \in Requests \ subscribed : f.writes[c] = 0
        /\ f.done => \A c \in subscribed : f.writes[c] = 1
        /\ \A j \in DOMAIN fan : fan[j].id = f.id => j = k

\* C10 witness: a message with two topics was fanned out; a connection
\* subscribed to both got one write, a connection subscribed to neither none
C10_Witness ==
  \E k \in DOMAIN fan, c, d \in Requests :
    /\ fan[k].done
    /\ MsgOf(fan[k].id).Topics = <<"t1", "t2">>
    /\ c \in storage["t1"] /\ c \in storage["t2"] /\ fan[k].writes[c] = 1
    /\ d \notin storage["t1"] /\ d \notin storage["t2"] /\ fan[k].writes[d] = 0

\* the requests that asked for a path other than the websocket path
OffPath == {r \in Requests : req[r].pc # "idle" /\ req[r].path # ConfigPath}

\* C11: a request for any other path than the configured websocket path is
\* handed to the next handler exactly once and as it came, whether the hub is
\* running or stopped: it gets no attributes, no access check, no response
\* from the hub, no upgrade and no registry entry; and the hub forwards no
\* request for the websocket path.
C11_OtherPathForwardedOnce ==
  \A r \in Requests :
    /\ r \in OffPath =>
         /\ req[r].pc = "done"
         /\ req[r].forwarded = 1
         /\ ~req[r].attrs
         /\ req[r].checks = 0
         /\ req[r].resp = "none"
         /\ ~req[r].upgraded /\ ~req[r].stored
         /\ r \notin connections /\ conn[r] = "none"
    /\ r \notin OffPath => req[r].forwarded = 0

\* C11 witness: one request was forwarded while the hub was running, another
\* after exactly one Stop (the state in which websocket requests are refused)
C11_Witness ==
  \E r, q \in OffPath :
    /\ req[r].at = 0 /\ req[r].forwarded = 1
    /\ req[q].at = 1 /\ req[q].forwarded = 1

\* --------------------------------------------------- rpc: observations
\* the accept loop sent an error on the channel
AcceptPushed == \E k \in DOMAIN rsent : rsent[k].from = "accept"

\* C12: a failed Accept is sent on the rpc error channel exactly when Stop
\* had not been called by the time the loop looks at the closed flag; the
\* failure that Stop causes by closing the listener is logged as a warning
\* and never sent, in every interleaving of Stop with the loop, and once the
\* listener is closed the loop ends.
C12_AcceptErrorReportedUnlessStopped ==
  /\ [](/\ racc.pc = "send" => ~racc.stopCalled
        /\ racc.pc = "done" => (AcceptPushed <=> ~racc.stopCalled)
        /\ racc.pc \notin {"send", "done"} => ~AcceptPushed
        /\ AcceptPushed => racc.logs = <<"error">>
        /\ (racc.cause = "stop" /\ racc.pc # "check") =>
              /\ racc.pc = "done"
              /\ racc.logs = <<"warn">>
              /\ ~AcceptPushed)
  /\ (listener = "closed") ~> (racc.pc = "done")

\* C12 witness: Stop closed the listener, the Accept it interrupted failed,
\* the loop logged a warning, sent nothing and ended
C12_Witness ==
  /\ rstop.n > 0 /\ listener = "closed"
  /\ racc.pc = "done" /\ racc.cause = "stop"
  /\ racc.logs = <<"warn">>
  /\ rsent = <<>>

\* C13: once Stop has been called, one or more times, every request for the
\* websocket path that arrives later returns at once: no access check, no
\* upgrade, no registry entry; that holds for good, however many Stop calls
\* came before the request.
C13_NoAdmissionAfterStop ==
  \A r \in Requests :
    (req[r].pc # "idle" /\ req[r].path = ConfigPath /\ req[r].at > 0) =>
      /\ req[r].pc = "done"
      /\ req[r].checks = 0
      /\ ~req[r].upgraded /\ ~req[r].stored
      /\ r \notin connections

\* how often call c handed batch entry k to broker b: br.Publish is given the
\* whole batch, so every invocation on b hands over every entry
Handed(c, k, b) == Len(SelectSeq(PubsOf(c), LAMBDA e : e.to = b))

\* C14: when the synchronous Publish returns nil, each message of the batch
\* went to the registered broker its key names exactly once and to no other
\* broker, whatever the batch: mixed brokers, several topics or none.
C14_EachMessageOnceToItsBroker ==
  \A c \in CallIds :
    (call[c].fn = "Publish" /\ call[c].ret = "nil") =>
      \A k \in DOMAIN call[c].msg, b \in pubsubs :
        Handed(c, k, b) = IF call[c].msg[k].Broker = b THEN 1 ELSE 0

\* C15: after Stop the fan-out queue accepts no message received from a
\* broker any more, and every receive loop that Serve started comes to an
\* end: none stays blocked in an enqueue or goes on calling Next for ever.
C15_StopEndsReceiveLoops ==
  /\ [][stopped > 0 => accepted' = accepted]_vars
  /\ \A b \in pubsubs :
       (stopped > 0 /\ brk[b].pc # "off") ~> (brk[b].pc = "done")

\* C16: PublishAsync handles a batch entry naming an unregistered broker key
\* the way Publish does: it raises no fault, skips the entry with a "no such
\* broker" log line per topic and gives the lock back, so the process lives
\* on and later Publish / PublishAsync calls can run.
C16_AsyncUnknownBrokerSkipped ==
  /\ ~crashed
  /\ \A c \in CallIds :
       call[c].fn = "PublishAsync" =>
         /\ call[c].pc # "panic"
         /\ \A i \in Unknown(c) : PubsAt(c, i) = 0
         /\ (call[c].pc = "done" /\
             ~\E k \in DOMAIN log : log[k].call = c /\ log[k].text = "publish async error") =>
               \A i \in Unknown(c) : WarnsAt(c, i) = Len(call[c].msg[i].Topics)
         /\ call[c].pc = "done" => mu # c

\* C17: every connection in the registry has an open transport: a transport
\* is closed only after its entry left the registry, and Stop closes none.
C17_RegisteredMeansOpen ==
  /\ \A r \in connections : conn[r] = "open"
  /\ \A r \in Requests : conn[r] = "closed" =>
       /\ r \notin connections
       /\ \E i, j \in DOMAIN req[r].ran :
            i < j /\ req[r].ran[i] = "Delete" /\ req[r].ran[j] = "Close"

\* C17 witness: after Stop one connection has left the registry with its
\* transport still open, another has left it and been closed
C17_Witness ==
  \E r, q \in Requests :
    /\ stopped > 0
    /\ req[r].stored /\ r \notin connections /\ conn[r] = "open"
    /\ req[q].stored /\ q \notin connections /\ conn[q] = "closed"

\* C18: every connection ID in a topic's subscriber set is in the registry:
\* a connection is registered before it can subscribe and is taken out of
\* every topic before its registry entry is deleted.
C18_SubscribersAreRegistered ==
  \A t \in Topics : storage[t] \subseteq connections

\* C18 witness: a connection that had subscribed has been unsubscribed and is
\* still registered (its Delete is yet to run), while another one is both
\* subscribed and registered
C18_Witness ==
  \E r, q \in Requests :
    /\ req[r].ran = <<"CleanUp">> /\ r \in connections /\ InNoTopic(r)
    /\ req[q].pc = "serving" /\ q \in connections /\ ~InNoTopic(q)

\* a send on the rpc error channel that cannot complete: the buffer is full
RpcSendBlocked ==
  (rsrv.pc = "send" \/ racc.pc = "send") /\ Len(rpcErrCh) >= RpcErrCap

\* C19: over its life the rpc plugin sends at most one error on the channel
\* Serve returns, start-up and accept loop taken together; the channel's one
\* slot therefore always has room, no send blocks even with nobody receiving,
\* and Serve is never held up before it returns the channel.
C19_AtMostOneErrorSent ==
  /\ Len(rsent) <= 1
  /\ Len(rpcErrCh) <= RpcErrCap
  /\ ~RpcSendBlocked
  /\ rsrv.failed # "none" => racc.pc = "off"
  /\ rsrv.pc = "send" => rsent = <<>>
  /\ racc.pc = "send" => rsent = <<>>

\* C19 witness: the accept loop has sent its error and ended, the error is
\* still in the buffer because nobody received it, and Stop has run since
C19_Witness ==
  /\ rsrv.pc = "returned" /\ racc.pc = "done"
  /\ rsent = <<[from |-> "accept"]>>
  /\ rpcErrCh = rsent
  /\ rstop.n > 0

\* C20: when attaching a service fails or the listener cannot be created,
\* Serve sends that one error on the channel, attaches no service behind the
\* failing one and starts no accept loop; a Stop called in that state still
\* returns, with nil or with an error.
C20_FailedStartStillStops ==
  rsrv.failed # "none" =>
    /\ rsrv.pc = "returned" => rsent = <<[from |-> rsrv.failed]>>
    /\ rsrv.failed = "register" => Len(rsrv.attached) = rsrv.i - 1
    /\ racc.pc = "off" /\ racc.conns = 0
    /\ rstop.pc # "panic"
    /\ Len(rstop.rets) + (IF rstop.pc = "idle" THEN 0 ELSE 1) = rstop.n

====
